---------------------------- MODULE Spec2Model ----------------------------
(***************************************************************************)
(* The lifecycle controller of pkg/crc/machine/machine.go: the entry       *)
(* points Start, Stop, PowerOff, Delete, Status, IP, GetProxyConfig and    *)
(* GetConsoleURL over one named instance.  One command runs at a time,     *)
(* synchronously; every call to a collaborator (libmachine store, driver,  *)
(* SSH, systemd, cluster API) is one step whose outcome is chosen by the   *)
(* environment.                                                            *)
(***************************************************************************)
EXTENDS Naturals, Sequences, FiniteSets

\* ------------------------------------------------------------------ bounds

\* RetrySpec: the largest maxAttempts and the largest interval tried.
MaxAttempts == 6
MaxInterval == 2
\* The largest disk size and use cluster.GetRootPartitionUsage reports.
MaxDisk == 2

\* ------------------------------------------------------- program constants

HostIPAttempts == 30
ProxyAttempts == 60
RetryInterval == 2

\* ------------------------------------------------------------- value sets

\* Base names of the bundle paths a caller may pass (filepath.Base of
\* StartConfig.BundlePath).
Bundles == {"crc_4.5.crcbundle", "crc_4.6.crcbundle"}

\* startConfig.NameServer: empty, or an override.
NameServers == {"", "8.8.8.8"}

\* state.State values of the driver used here; "None" is the state of a
\* machine that the hypervisor does not have.
VMStates == {"None", "Running", "Stopped", "Error"}

\* The first-boot provisioning steps of Start (lines 322-345).
FirstBootSteps == {"sshKey", "kubeconfigLocal", "kubeconfigVM"}

\* The proxy URLs and the no-proxy entries the ambient configuration may hold.
ProxyURLs == {"", "http://proxy:3128", "https://proxy:3129"}
NoProxyEntries == {".crc.testing", "localhost"}

\* The ambient proxy configuration network.NewProxyConfig reads.
ProxyEnvs == [http : ProxyURLs, https : ProxyURLs, noProxy : SUBSET NoProxyEntries]

\* No proxy configured, and a plain HTTP proxy: the two the entry points are
\* run with.
NoProxyEnv == [http |-> "", https |-> "", noProxy |-> {}]
HttpProxyEnv == [http |-> "http://proxy:3128", https |-> "", noProxy |-> {}]

\* The address host.Driver.GetIP() reports.
InstanceIP == "192.168.130.11"

VARIABLES
  recorded,         \* the machine store holds a record of the instance
  recBundle,        \* the bundle name the driver reports (GetBundleName)
  vmState,          \* the state the driver reports (GetState)
  provisioned,      \* first-boot steps completed for this instance
  kubeletIssued,    \* kubelet start issued since the VM was last booted
  csrApproved,      \* node CSR approved since the VM was last booted
  lastStartFailed,  \* the previous Start invocation returned an error
  cmd,              \* the entry point running, "none" between commands
  pc,               \* its position
  args,             \* its arguments and the ambient proxy environment
  loc,              \* its local variables
  trace,            \* the collaborator calls it has made, with outcomes
  result,           \* what it returned (pc = "done")
  retry,            \* the loop state of the errors.RetryAfter in progress
  entry,            \* the store and driver state when the command was entered
  res               \* what the command acquired: client, log files, defers

world == <<recorded, recBundle, vmState, provisioned, kubeletIssued, csrApproved>>
vars == <<recorded, recBundle, vmState, provisioned, kubeletIssued, csrApproved,
          lastStartFailed, cmd, pc, args, loc, trace, result, retry, entry, res>>

NoArgs == [bundle |-> "", nameServer |-> "", proxy |-> NoProxyEnv, debug |-> FALSE]

\* A network.ProxyConfig with nothing set.
NoProxyConfig == [HttpProxy |-> "", HttpsProxy |-> "", noProxy |-> {}]

NoLoc == [exists |-> FALSE, needsCertsRenewal |-> FALSE, kubeletStarted |-> FALSE,
          vmState |-> "None", allOk |-> TRUE, cfgErr |-> FALSE,
          state |-> "None", openshiftStatus |-> "",
          proxyConfig |-> NoProxyConfig, environment |-> NoProxyConfig,
          attempts |-> 0,
          operatorsStatus |-> [Available |-> FALSE, Degraded |-> FALSE,
                               Progressing |-> FALSE]]

NoResult == [success |-> FALSE, msg |-> "", status |-> "", kubeletStarted |-> FALSE,
             openshiftStatus |-> "", diskUse |-> 0, diskSize |-> 0,
             state |-> "None", ip |-> ""]

IdleRetry == [limit |-> 0, d |-> 0, attempts |-> 0, waits |-> 0, elapsed |-> 0,
              status |-> "idle", err |-> 0]

\* ------------------------------------------------------------------ helpers

IsRunning(st) == st = "Running"

\* bundleInfo.GetOpenshiftVersion(): empty for a bundle without the field.
GetOpenshiftVersion(b) == IF b = "crc_4.6.crcbundle" THEN "4.6" ELSE ""

\* A collaborator call and its outcome, appended to the invocation's trace.
Called(call, out) == trace' = Append(trace, [call |-> call, out |-> out])

Invoked(call) == \E i \in 1..Len(trace) : trace[i].call = call

InvokedOk(call) == \E i \in 1..Len(trace) : trace[i].call = call /\ trace[i].out = "ok"

Count(call) == Cardinality({i \in 1..Len(trace) : trace[i].call = call})

\* An error return of an entry point (startError, stopError, ...).
ErrorResult(msg) == [NoResult EXCEPT !.msg = msg]

\* The command moves on to position l.
Goto(l) == pc' = l /\ UNCHANGED result

\* The command returns r.
Return(r) == pc' = "done" /\ result' = r

\* Position l on success, the error return otherwise.
OkOrError(ok, l, msg) == IF ok THEN Goto(l) ELSE Return(ErrorResult(msg))

\* A collaborator returned an error in this invocation.
Noted(ok) == loc' = [loc EXCEPT !.allOk = loc.allOk /\ ok]


\* ------------------------------------------------------------ proxy policy

\* network.NewProxyConfig(): the configuration the ambient settings give.
NewProxyConfig(env) ==
  [HttpProxy |-> env.http, HttpsProxy |-> env.https, noProxy |-> env.noProxy]

\* ProxyConfig.IsEnabled(): a proxy URL is set.
IsEnabled(proxy) == proxy.HttpProxy # "" \/ proxy.HttpsProxy # ""

\* ProxyConfig.AddNoProxy(entry): idempotent.
AddNoProxy(proxy, e) == [proxy EXCEPT !.noProxy = @ \cup {e}]

\* crcBundleMetadata.ClusterInfo.BaseDomain of the bundle.
BaseDomain(b) == IF b = "crc_4.6.crcbundle" THEN "apps-crc.testing" ELSE "crc.testing"

\* getProxyConfig with the base domain never added.
getProxyConfig_DomainNotAdded(env, baseDomainName) == NewProxyConfig(env)

\* getProxyConfig(baseDomainName), when NewProxyConfig returns no error.
getProxyConfig(env, baseDomainName) ==
  LET proxy == NewProxyConfig(env) IN
  IF IsEnabled(proxy) THEN AddNoProxy(proxy, "." \o baseDomainName) ELSE proxy

\* ---- the client and the log files of an invocation

\* Nothing acquired, nothing deferred.
NoRes == [clients |-> 0, logs |-> 0, deferred |-> <<>>]

\* setMachineLogging(logs): without debug the log file is opened; an error
\* is the error of opening it.
SetMachineLogging(r, debug, ok) ==
  IF ~debug /\ ok THEN [r EXCEPT !.logs = @ + 1] ELSE r

\* unsetMachineLogging: logging.CloseLogFile() closes a log file that is
\* open, at most one.
UnsetMachineLogging(r) == [r EXCEPT !.logs = IF @ > 0 THEN @ - 1 ELSE 0]

\* defer f(): f runs when the entry point returns.
Deferred(r, f) == [r EXCEPT !.deferred = Append(@, f)]

\* createLibMachineClient(debug) followed by the caller's defer cleanup():
\* after an error cleanup is unsetMachineLogging alone, otherwise it closes
\* the client and calls unsetMachineLogging.
CreateLibMachineClient(r, debug, ok) ==
  LET s == SetMachineLogging(r, debug, ok) IN
  IF ok THEN Deferred([s EXCEPT !.clients = @ + 1], "cleanup")
  ELSE Deferred(s, "unsetMachineLogging")

\* The deferred function f runs.
RunDeferredFunc(r, f) ==
  IF f = "cleanup" THEN UnsetMachineLogging([r EXCEPT !.clients = @ - 1])
  ELSE UnsetMachineLogging(r)

\* The deferred functions run, the last deferred first.
RECURSIVE RunDeferred(_)
RunDeferred(r) ==
  IF r.deferred = <<>> THEN r
  ELSE LET n == Len(r.deferred) IN
       RunDeferred(RunDeferredFunc([r EXCEPT !.deferred = SubSeq(@, 1, n - 1)],
                                   r.deferred[n]))

\* Exists(name) inside Start: its own createLibMachineClient(false) and its
\* own deferred cleanup, run before it returns.
ExistsResources(r, logOk) ==
  [RunDeferred(CreateLibMachineClient([r EXCEPT !.deferred = <<>>], FALSE, logOk))
     EXCEPT !.deferred = r.deferred]

\* The variables a step of a command leaves alone unless it says otherwise.
frame == <<lastStartFailed, cmd, args, entry, res>>

\* One call to a collaborator at position at: logged, then on to next or the
\* error return.
Step(c, at, call, ok, next, msg) ==
  /\ cmd = c /\ pc = at
  /\ Called(call, IF ok THEN "ok" ELSE "err")
  /\ OkOrError(ok, next, msg)

NoEntry == [recorded |-> FALSE, recBundle |-> "", vmState |-> "None"]

\* A command is entered with its first call (createLibMachineClient, or
\* setMachineLogging in Stop and IP), which acquires r, then goes on to first.
\* With debug no log file is opened, and the first call cannot fail.
Enter(c, a, call, ok, first, msg, r) ==
  /\ cmd = "none"
  /\ a.debug => ok
  /\ cmd' = c /\ args' = a /\ res' = r
  /\ entry' = [recorded |-> recorded, recBundle |-> recBundle, vmState |-> vmState]
  /\ trace' = <<[call |-> call, out |-> IF ok THEN "ok" ELSE "err"]>>
  /\ loc' = [NoLoc EXCEPT !.allOk = ok]
  /\ OkOrError(ok, first, msg)
  /\ UNCHANGED <<world, lastStartFailed, retry>>

\* A step that calls one collaborator and changes nothing but the command.
Call(c, at, call, ok, next, msg) ==
  /\ Step(c, at, call, ok, next, msg)
  /\ Noted(ok)
  /\ UNCHANGED <<world, frame, retry>>

\* --------------------------------------------------------- retry primitive

\* RetryAfterStep with a sleep after every failed attempt, the last included.
RetryAfterStep_SleepsAfterLast(r, out) ==
  LET a == r.attempts + 1 IN
  IF out = "ok" THEN [r EXCEPT !.attempts = a, !.status = "ok", !.err = 0]
  ELSE IF out = "fatal" THEN [r EXCEPT !.attempts = a, !.status = "aborted", !.err = a]
  ELSE [r EXCEPT !.attempts = a, !.waits = r.waits + 1, !.elapsed = r.elapsed + r.d,
                 !.err = a, !.status = IF a < r.limit THEN "running" ELSE "exhausted"]

\* errors.RetryAfter(limit, callback, d): one iteration of its loop, given the
\* callback's return out ("ok", "retriable" or "fatal").  err identifies the
\* error returned by the number of the attempt that produced it.
RetryAfterStep(r, out) ==
  LET a == r.attempts + 1 IN
  IF out = "ok" THEN [r EXCEPT !.attempts = a, !.status = "ok", !.err = 0]
  ELSE IF out = "fatal" THEN [r EXCEPT !.attempts = a, !.status = "aborted", !.err = a]
  ELSE IF a < r.limit
    THEN [r EXCEPT !.attempts = a, !.waits = r.waits + 1,
                   !.elapsed = r.elapsed + r.d, !.err = a]
    ELSE [r EXCEPT !.attempts = a, !.status = "exhausted", !.err = a]

\* The attempts a RetryAfter made before it returned an error; 0 while it
\* runs and when it returned nil.
Attempts(r) == IF r.status \in {"exhausted", "aborted"} THEN r.attempts ELSE 0

NewRetry(limit, d) == [IdleRetry EXCEPT !.limit = limit, !.d = d, !.status = "running"]

\* ------------------------------------------------------- store and driver

\* api.Create(vm) succeeded: the record is saved with the requested bundle
\* and the new VM is up.
Created(b) ==
  /\ recorded' = TRUE /\ recBundle' = b /\ vmState' = "Running"
  /\ provisioned' = {} /\ kubeletIssued' = FALSE /\ csrApproved' = FALSE

\* api.Create(vm) failed.  libmachine saves the host record before it drives
\* the hypervisor, so the failure may leave a record (partial) of a machine
\* that is not running; Start does not remove it.  A record that was there
\* before stays as it was.
CreateFailed(b, partial) ==
  IF partial /\ ~recorded
    THEN /\ recorded' = TRUE /\ recBundle' = b /\ vmState' = "Stopped"
         /\ provisioned' = {} /\ kubeletIssued' = FALSE /\ csrApproved' = FALSE
    ELSE UNCHANGED world

\* The VM is booted, or brought down to state st: what ran in it is gone.
Rebooted(st) ==
  /\ vmState' = st /\ kubeletIssued' = FALSE /\ csrApproved' = FALSE
  /\ UNCHANGED <<recorded, recBundle, provisioned>>

\* ------------------------------------------------------------------- Start

Start_createLibMachineClient ==
  \E b \in Bundles, ns \in NameServers, p \in {NoProxyEnv, HttpProxyEnv},
     d \in BOOLEAN, ok \in BOOLEAN :
    Enter("Start", [bundle |-> b, nameServer |-> ns, proxy |-> p, debug |-> d],
          "createLibMachineClient", ok, "Exists", "Cannot initialize libmachine",
          CreateLibMachineClient(NoRes, d, ok))

\* AfterExists with the error of Exists returned by Start.
AfterExists_ErrorReturned(ok, exists) ==
  IF ok THEN Goto(IF exists THEN "Load" ELSE "GetPullSecret")
  ELSE Return(ErrorResult("Cannot check if machine exists"))

\* The position after Exists returned (lines 122-123): err is assigned and
\* not read, only exists decides the branch.
AfterExists(ok, exists) == Goto(IF exists THEN "Load" ELSE "GetPullSecret")

\* Line 122: the error of Exists is dropped; on error exists is false.
\* Exists fails when its own logging cannot be set up (logOk false) or when
\* the store's query fails.
Start_Exists ==
  /\ cmd = "Start" /\ pc = "Exists"
  /\ \E ok \in BOOLEAN, logOk \in BOOLEAN :
       /\ ok => logOk
       /\ Called("Exists", IF ok THEN "ok" ELSE "err")
       /\ loc' = [loc EXCEPT !.exists = ok /\ recorded, !.allOk = loc.allOk /\ ok]
       /\ res' = ExistsResources(res, logOk)
       /\ AfterExists(ok, ok /\ recorded)
  /\ UNCHANGED <<world, lastStartFailed, cmd, args, entry, retry>>

Start_GetPullSecret ==
  /\ \E ok \in BOOLEAN :
       /\ Step("Start", "GetPullSecret", "GetPullSecret", ok, "getCrcBundleInfo",
               "Failed to get pull secret")
       /\ Noted(ok)
  /\ UNCHANGED <<world, frame, retry>>

Start_getCrcBundleInfo ==
  /\ \E ok \in BOOLEAN :
       /\ Step("Start", "getCrcBundleInfo", "getCrcBundleInfo", ok, "CheckDiskImageSize",
               "Error getting bundle metadata")
       /\ Noted(ok)
  /\ UNCHANGED <<world, frame, retry>>

Start_CheckDiskImageSize ==
  /\ \E ok \in BOOLEAN :
       /\ Step("Start", "CheckDiskImageSize", "CheckDiskImageSize", ok, "createHost",
               "Invalid bundle disk image")
       /\ Noted(ok)
  /\ UNCHANGED <<world, frame, retry>>

\* createHost: api.NewHost, then api.Create.
Start_createHost ==
  /\ cmd = "Start" /\ pc = "createHost"
  /\ \E newHost \in BOOLEAN :
       IF ~newHost
         THEN /\ Called("NewHost", "err")
              /\ Noted(FALSE)
              /\ Return(ErrorResult("Error creating machine"))
              /\ UNCHANGED world
         ELSE \E ok \in BOOLEAN, partial \in BOOLEAN :
              /\ Called("Create", IF ok THEN "ok" ELSE "err")
              /\ Noted(ok)
              /\ OkOrError(ok, "getClusterConfig", "Error creating machine")
              /\ IF ok THEN Created(args.bundle) ELSE CreateFailed(args.bundle, partial)
  /\ UNCHANGED <<frame, retry>>

Start_Load ==
  /\ \E ok \in BOOLEAN :
       /\ Step("Start", "Load", "Load", ok, "getBundleMetadataFromDriver",
               "Error loading machine")
       /\ Noted(ok)
  /\ UNCHANGED <<world, frame, retry>>

\* The position after the bundle name was read from the driver: the requested
\* bundle must be the one the instance was created from.
BundleChecked(bundleName) ==
  IF bundleName # args.bundle THEN Return(ErrorResult("Invalid bundle"))
  ELSE Goto("GetState")

Start_getBundleMetadataFromDriver ==
  /\ cmd = "Start" /\ pc = "getBundleMetadataFromDriver"
  /\ \E ok \in BOOLEAN :
       /\ Called("getBundleMetadataFromDriver", IF ok THEN "ok" ELSE "err")
       /\ Noted(ok)
       /\ IF ~ok THEN Return(ErrorResult("Error loading bundle metadata"))
          ELSE BundleChecked(recBundle)
  /\ UNCHANGED <<world, frame, retry>>

\* The position after the state was read in the present branch: a running VM
\* ends Start at once.
StateChecked(st) ==
  IF IsRunning(st)
    THEN Return([NoResult EXCEPT !.success = TRUE, !.status = st])
    ELSE Goto("DriverStart")

Start_GetState ==
  /\ cmd = "Start" /\ pc = "GetState"
  /\ \E ok \in BOOLEAN :
       /\ Called("GetState", IF ok THEN "ok" ELSE "err")
       /\ Noted(ok)
       /\ IF ~ok THEN Return(ErrorResult("Error getting the machine state"))
          ELSE StateChecked(vmState)
  /\ UNCHANGED <<world, frame, retry>>

\* host.Driver.Start(): a machine the hypervisor does not have cannot start.
Start_DriverStart ==
  /\ \E ok \in BOOLEAN :
       /\ ok => vmState # "None"
       /\ Step("Start", "DriverStart", "Driver.Start", ok, "Save",
               "Error starting stopped VM")
       /\ Noted(ok)
       /\ IF ok THEN Rebooted("Running") ELSE UNCHANGED world
  /\ UNCHANGED <<frame, retry>>

Start_Save ==
  /\ \E ok \in BOOLEAN :
       /\ Step("Start", "Save", "Save", ok, "getClusterConfig",
               "Error saving state for VM")
       /\ Noted(ok)
  /\ UNCHANGED <<world, frame, retry>>

\* ---- Start, after the VM was created or started (lines 222-433)

Start_getClusterConfig ==
  /\ \E ok \in BOOLEAN :
       /\ Step("Start", "getClusterConfig", "getClusterConfig", ok, "Reload",
               "Cannot create cluster configuration")
       /\ Noted(ok)
  /\ UNCHANGED <<world, frame, retry>>

Start_Reload ==
  /\ \E ok \in BOOLEAN :
       /\ ok => recorded
       /\ Step("Start", "Reload", "Reload", ok, "GetState2", "Error loading vm")
       /\ Noted(ok)
  /\ UNCHANGED <<world, frame, retry>>

\* Line 233: the state Start reports in its result.
Start_GetState2 ==
  /\ \E ok \in BOOLEAN :
       /\ Step("Start", "GetState2", "GetState2", ok, "WaitForSSH",
               "Error getting the state")
       /\ loc' = [loc EXCEPT !.vmState = IF ok THEN vmState ELSE loc.vmState,
                             !.allOk = loc.allOk /\ ok]
  /\ UNCHANGED <<world, frame, retry>>

Start_WaitForSSH ==
  /\ \E ok \in BOOLEAN :
       /\ Step("Start", "WaitForSSH", "WaitForSSH", ok, "CheckCertsValidity",
               "Failed to connect to the CRC VM with SSH")
       /\ Noted(ok)
  /\ UNCHANGED <<world, frame, retry>>

\* What cluster.CheckCertsValidity returns: the certificates are valid (no
\* error), they have expired (CertExpired with an error), or the probe failed.
CertExpiryStates == {"Valid", "Expired", "CheckFailed"}

\* NeedsCertsRenewal with the renewal asked for whatever the probe returned.
NeedsCertsRenewal_Always(st) == TRUE

\* Lines 247-256: needsCertsRenewal after the probe returned st.
NeedsCertsRenewal(st) == st = "Expired"

Start_CheckCertsValidity ==
  /\ cmd = "Start" /\ pc = "CheckCertsValidity"
  /\ \E st \in CertExpiryStates :
       /\ Called("CheckCertsValidity", IF st = "Valid" THEN "ok" ELSE st)
       /\ loc' = [loc EXCEPT !.needsCertsRenewal = NeedsCertsRenewal(st),
                             !.allOk = loc.allOk /\ st = "Valid"]
       /\ IF st = "CheckFailed"
            THEN Return(ErrorResult("Failed to check certificate validity"))
            ELSE Goto(IF args.nameServer # "" THEN "addNameServerToInstance" ELSE "GetIP")
  /\ UNCHANGED <<world, frame, retry>>

\* addNameServerToInstance: the nameserver is added when the VM does not
\* have it yet.
Start_addNameServerToInstance ==
  /\ cmd = "Start" /\ pc = "addNameServerToInstance"
  /\ \E has \in {"yes", "no", "err"}, ok \in BOOLEAN :
       /\ has # "no" => ok
       /\ trace' = trace \o
            <<[call |-> "HasGivenNameserversConfigured",
               out |-> IF has = "err" THEN "err" ELSE "ok"]>> \o
            (IF has = "no"
               THEN <<[call |-> "AddNameserversToInstance",
                       out |-> IF ok THEN "ok" ELSE "err"]>>
               ELSE <<>>)
       /\ Noted(has # "err" /\ ok)
       /\ OkOrError(has # "err" /\ ok, "GetIP", "Failed to add nameserver to the VM")
  /\ UNCHANGED <<world, frame, retry>>

\* Line 264; on success the retry loop of line 279 starts.
Start_GetIP ==
  /\ \E ok \in BOOLEAN :
       /\ Step("Start", "GetIP", "GetIP", ok, "DetermineHostIP", "Error getting the IP")
       /\ Noted(ok)
       /\ retry' = IF ok THEN NewRetry(HostIPAttempts, RetryInterval) ELSE retry
  /\ UNCHANGED <<world, frame>>

\* HostIPDetermined with the error of RetryAfter dropped.
HostIPDetermined_ErrorDropped(st) == Goto("getProxyConfig")

\* The position after errors.RetryAfter(30, determineHostIP, ...) returned
\* with status st.
HostIPDetermined(st) ==
  IF st = "ok" THEN Goto("getProxyConfig")
  ELSE Return(ErrorResult("Error determining host IP"))

\* determineHostIP with the error returned as it is.
determineHostIP_ErrorNotWrapped(found) == IF found THEN "ok" ELSE "fatal"

\* Lines 270-277: every error of network.DetermineHostIP is wrapped as
\* retriable.
determineHostIP(found) == IF found THEN "ok" ELSE "retriable"

\* One attempt of determineHostIP under RetryAfter (line 279).
Start_DetermineHostIP ==
  /\ cmd = "Start" /\ pc = "DetermineHostIP"
  /\ \E found \in BOOLEAN :
       LET r == RetryAfterStep(retry, determineHostIP(found)) IN
       /\ loc' = [loc EXCEPT !.allOk = loc.allOk /\ found, !.attempts = Attempts(r)]
       /\ IF r.status = "running"
            THEN /\ retry' = r
                 /\ UNCHANGED <<pc, result, trace>>
            ELSE /\ retry' = IdleRetry
                 /\ Called("DetermineHostIP", IF r.status = "ok" THEN "ok" ELSE "err")
                 /\ HostIPDetermined(r.status)
  /\ UNCHANGED <<world, frame>>

\* loc with the proxy configuration resolved for the bundle's base domain and
\* applied to the process environment (ApplyToEnvironment).
ProxyApplied(l, bundle) ==
  LET proxy == getProxyConfig(args.proxy, BaseDomain(bundle)) IN
  [l EXCEPT !.proxyConfig = proxy, !.environment = proxy]

\* Lines 283-287.
Start_getProxyConfig ==
  /\ \E ok \in BOOLEAN :
       /\ Step("Start", "getProxyConfig", "getProxyConfig", ok, "RunPostStart",
               "Error getting proxy configuration")
       /\ loc' = IF ok THEN ProxyApplied(loc, args.bundle)
                 ELSE [loc EXCEPT !.allOk = FALSE]
  /\ UNCHANGED <<world, frame, retry>>

Start_RunPostStart ==
  /\ \E ok \in BOOLEAN :
       /\ Step("Start", "RunPostStart", "RunPostStart", ok, "CheckCRCLocalDNSReachable",
               "Error running post start")
       /\ Noted(ok)
  /\ UNCHANGED <<world, frame, retry>>

Start_CheckCRCLocalDNSReachable ==
  /\ \E ok \in BOOLEAN :
       /\ Step("Start", "CheckCRCLocalDNSReachable", "CheckCRCLocalDNSReachable", ok,
               "CheckCRCPublicDNSReachable", "Failed internal DNS query")
       /\ Noted(ok)
  /\ UNCHANGED <<world, frame, retry>>

\* PublicDNSChecked with a failed check returned as an error of Start.
PublicDNSChecked_ErrorReturned(ok) ==
  OkOrError(ok, "CheckCRCLocalDNSReachableFromHost", "Failed public DNS query")

\* The position after dns.CheckCRCPublicDNSReachable returned (lines
\* 312-314): a failure is logged as a warning, nothing else.
PublicDNSChecked(ok) == Goto("CheckCRCLocalDNSReachableFromHost")

Start_CheckCRCPublicDNSReachable ==
  /\ cmd = "Start" /\ pc = "CheckCRCPublicDNSReachable"
  /\ \E ok \in BOOLEAN :
       /\ Called("CheckCRCPublicDNSReachable", IF ok THEN "ok" ELSE "err")
       /\ Noted(ok)
       /\ PublicDNSChecked(ok)
  /\ UNCHANGED <<world, frame, retry>>

\* Line 347: certificates are renewed when the probe found them expired.
AfterFirstBoot == IF loc.needsCertsRenewal THEN "RegenerateCertificates" ELSE "StartKubelet"

\* AfterDNS with the first-boot steps run for every instance.
AfterDNS_FirstBootAlways == "updateSSHKeyPair"

\* Line 323: the first-boot steps run when Start created the instance.
AfterDNS == IF ~loc.exists THEN "updateSSHKeyPair" ELSE AfterFirstBoot

Start_CheckCRCLocalDNSReachableFromHost ==
  /\ \E ok \in BOOLEAN :
       /\ Step("Start", "CheckCRCLocalDNSReachableFromHost",
               "CheckCRCLocalDNSReachableFromHost", ok, AfterDNS,
               "Failed to query DNS from host")
       /\ Noted(ok)
  /\ UNCHANGED <<world, frame, retry>>

\* A first-boot step of Start: on success it is done for the instance.
FirstBootStep(at, done, ok, next, msg) ==
  /\ Step("Start", at, at, ok, next, msg)
  /\ Noted(ok)
  /\ provisioned' = IF ok THEN provisioned \cup {done} ELSE provisioned
  /\ UNCHANGED <<recorded, recBundle, vmState, kubeletIssued, csrApproved, frame, retry>>

Start_updateSSHKeyPair ==
  \E ok \in BOOLEAN :
    FirstBootStep("updateSSHKeyPair", "sshKey", ok, "CopyFileContents",
                  "Error updating public key")

Start_CopyFileContents ==
  \E ok \in BOOLEAN :
    FirstBootStep("CopyFileContents", "kubeconfigLocal", ok, "RunPrivate",
                  "Error copying kubeconfig file")

Start_RunPrivate ==
  \E ok \in BOOLEAN :
    FirstBootStep("RunPrivate", "kubeconfigVM", ok, AfterFirstBoot,
                  "Error copying kubeconfig file in VM")

\* CertsRegenerated with a failed renewal only logged.
CertsRegenerated_ErrorLogged(ok) == Goto("StartKubelet")

\* The position after cluster.RegenerateCertificates returned (lines 350-362).
CertsRegenerated(ok) ==
  OkOrError(ok, "StartKubelet", "Failed to renew TLS certificates")

Start_RegenerateCertificates ==
  /\ cmd = "Start" /\ pc = "RegenerateCertificates"
  /\ \E ok \in BOOLEAN :
       /\ Called("RegenerateCertificates", IF ok THEN "ok" ELSE "err")
       /\ Noted(ok)
       /\ CertsRegenerated(ok)
  /\ UNCHANGED <<world, frame, retry>>

\* Line 370: the cluster is configured when Start created the instance;
\* configProxyForCluster does nothing without a proxy (line 800).
AfterKubeletStart ==
  IF loc.exists THEN "IsActive"
  ELSE IF IsEnabled(loc.proxyConfig) THEN "AddProxyConfigToCluster" ELSE "AddPullSecret"

Start_StartKubelet ==
  /\ \E ok \in BOOLEAN :
       /\ Step("Start", "StartKubelet", "StartKubelet", ok, AfterKubeletStart,
               "Error starting kubelet")
       /\ Noted(ok)
       /\ kubeletIssued' = (kubeletIssued \/ ok)
  /\ UNCHANGED <<recorded, recBundle, vmState, provisioned, csrApproved, frame, retry>>

\* ---- configureCluster (lines 767-784) and configProxyForCluster (798-830)

\* ProxyPushed with no deferred restart after a failed push.
ProxyPushed_NoRestart(ok) ==
  OkOrError(ok, "AddProxyToKubeletAndCriO", "Error Setting cluster config")

\* The position after cluster.AddProxyConfigToCluster returned (lines
\* 820-822): on error configProxyForCluster returns, which runs the deferred
\* restarts of lines 804-816.
ProxyPushed(ok) == Goto(IF ok THEN "AddProxyToKubeletAndCriO" ELSE "RestartCrio")

\* proxy.AddNoProxy(instanceIP), then cluster.AddProxyConfigToCluster: on
\* error the push into the services is skipped and the deferred restarts run.
Start_AddProxyConfigToCluster ==
  /\ cmd = "Start" /\ pc = "AddProxyConfigToCluster"
  /\ \E ok \in BOOLEAN :
       /\ Called("AddProxyConfigToCluster", IF ok THEN "ok" ELSE "err")
       /\ loc' = [loc EXCEPT !.cfgErr = ~ok, !.allOk = loc.allOk /\ ok,
                             !.proxyConfig = AddNoProxy(@, InstanceIP)]
       /\ ProxyPushed(ok)
  /\ UNCHANGED <<world, frame, retry>>

Start_AddProxyToKubeletAndCriO ==
  /\ cmd = "Start" /\ pc = "AddProxyToKubeletAndCriO"
  /\ \E ok \in BOOLEAN :
       /\ Called("AddProxyToKubeletAndCriO", IF ok THEN "ok" ELSE "err")
       /\ loc' = [loc EXCEPT !.cfgErr = ~ok, !.allOk = loc.allOk /\ ok]
       /\ Goto("RestartCrio")
  /\ UNCHANGED <<world, frame, retry>>

\* The deferred function of configProxyForCluster: sd.Restart("crio") ...
Start_RestartCrio ==
  /\ cmd = "Start" /\ pc = "RestartCrio"
  /\ \E ok \in BOOLEAN :
       /\ Called("RestartCrio", IF ok THEN "ok" ELSE "err")
       /\ loc' = [loc EXCEPT !.cfgErr = loc.cfgErr \/ ~ok, !.allOk = loc.allOk /\ ok]
       /\ Goto("RestartKubelet")
  /\ UNCHANGED <<world, frame, retry>>

\* ... then sd.Restart("kubelet"); configProxyForCluster returns the error
\* that is left, which configureCluster and Start hand on.
Start_RestartKubelet ==
  /\ cmd = "Start" /\ pc = "RestartKubelet"
  /\ \E ok \in BOOLEAN :
       /\ Called("RestartKubelet", IF ok THEN "ok" ELSE "err")
       /\ loc' = [loc EXCEPT !.cfgErr = loc.cfgErr \/ ~ok, !.allOk = loc.allOk /\ ok]
       /\ OkOrError(~loc.cfgErr /\ ok, "AddPullSecret", "Error Setting cluster config")
  /\ UNCHANGED <<world, frame, retry>>

Start_AddPullSecret ==
  /\ \E ok \in BOOLEAN :
       /\ Step("Start", "AddPullSecret", "AddPullSecret", ok, "UpdateClusterID",
               "Error Setting cluster config")
       /\ Noted(ok)
  /\ UNCHANGED <<world, frame, retry>>

Start_UpdateClusterID ==
  /\ \E ok \in BOOLEAN :
       /\ Step("Start", "UpdateClusterID", "UpdateClusterID", ok, "IsActive",
               "Error Setting cluster config")
       /\ Noted(ok)
  /\ UNCHANGED <<world, frame, retry>>

\* ---- lines 377-433

\* AfterIsActive with the remediation run on both branches.
AfterIsActive_RemediationAlways(kubeletStarted) == "WaitforRequestHeaderClientCaFile"

\* Lines 382-407: the remediation runs when kubelet is active, the settle
\* delay follows on both branches.
AfterIsActive(kubeletStarted) ==
  IF kubeletStarted THEN "WaitforRequestHeaderClientCaFile" ELSE "Sleep"

\* sd.IsActive("kubelet").
Start_IsActive ==
  /\ cmd = "Start" /\ pc = "IsActive"
  /\ \E ok \in BOOLEAN, active \in BOOLEAN :
       /\ ~ok => ~active
       /\ Called("IsActive", IF ok THEN "ok" ELSE "err")
       /\ loc' = [loc EXCEPT !.kubeletStarted = active, !.allOk = loc.allOk /\ ok]
       /\ OkOrError(ok, AfterIsActive(active), "kubelet service is not running")
  /\ UNCHANGED <<world, frame, retry>>

Start_WaitforRequestHeaderClientCaFile ==
  /\ \E ok \in BOOLEAN :
       /\ Step("Start", "WaitforRequestHeaderClientCaFile",
               "WaitforRequestHeaderClientCaFile", ok, "DeleteOpenshiftAPIServerPods",
               "Failed to wait for the client-ca request header update")
       /\ Noted(ok)
  /\ UNCHANGED <<world, frame, retry>>

Start_DeleteOpenshiftAPIServerPods ==
  /\ \E ok \in BOOLEAN :
       /\ Step("Start", "DeleteOpenshiftAPIServerPods", "DeleteOpenshiftAPIServerPods",
               ok, "Sleep", "Cannot delete OpenShift API Server pods")
       /\ Noted(ok)
  /\ UNCHANGED <<world, frame, retry>>

\* time.Sleep(time.Minute * 3)
Start_Sleep ==
  /\ cmd = "Start" /\ pc = "Sleep"
  /\ Called("Sleep", "ok")
  /\ Goto("ApproveNodeCSR")
  /\ UNCHANGED <<world, frame, retry, loc>>

\* Lines 427-432: the result of a Start that ran to its end.
StartResult ==
  [NoResult EXCEPT !.success = TRUE, !.status = loc.vmState,
                   !.kubeletStarted = loc.kubeletStarted]

\* Lines 410-417: after the approval, the proxy propagation is awaited when a
\* proxy is enabled; Start returns its result otherwise.
Start_ApproveNodeCSR ==
  /\ cmd = "Start" /\ pc = "ApproveNodeCSR"
  /\ \E ok \in BOOLEAN :
       /\ Called("ApproveNodeCSR", IF ok THEN "ok" ELSE "err")
       /\ Noted(ok)
       /\ csrApproved' = (csrApproved \/ ok)
       /\ IF ~ok THEN /\ Return(ErrorResult("Error approving the node csr"))
                      /\ UNCHANGED retry
          ELSE IF IsEnabled(loc.proxyConfig)
            THEN /\ Goto("waitForProxyPropagation")
                 /\ retry' = NewRetry(ProxyAttempts, RetryInterval)
            ELSE /\ Return(StartResult)
                 /\ UNCHANGED retry
  /\ UNCHANGED <<recorded, recBundle, vmState, provisioned, kubeletIssued, frame>>

\* ProxyPropagated with the error of RetryAfter returned by Start.
ProxyPropagated_ErrorReturned(st) ==
  IF st = "ok" THEN Return(StartResult)
  ELSE Return(ErrorResult("Failed to propagate proxy settings to cluster"))

\* The position after waitForProxyPropagation returned (lines 416-432, 846-848):
\* what RetryAfter returned with status st is only logged.
ProxyPropagated(st) == Return(StartResult)

\* waitForProxyPropagation: one attempt of checkProxySettingsForOperator
\* under RetryAfter.  An error and a proxy not yet set are both retriable.
Start_waitForProxyPropagation ==
  /\ cmd = "Start" /\ pc = "waitForProxyPropagation"
  /\ \E out \in {"set", "notSet", "err"} :
       LET r == RetryAfterStep(retry, IF out = "set" THEN "ok" ELSE "retriable") IN
       /\ loc' = [loc EXCEPT !.allOk = loc.allOk /\ out = "set", !.attempts = Attempts(r)]
       /\ IF r.status = "running"
            THEN /\ retry' = r
                 /\ UNCHANGED <<pc, result, trace>>
            ELSE /\ retry' = IdleRetry
                 /\ Called("waitForProxyPropagation", IF r.status = "ok" THEN "ok" ELSE "err")
                 /\ ProxyPropagated(r.status)
  /\ UNCHANGED <<world, frame>>

\* -------------------------------------------------------------------- Stop

\* The arguments of Stop and IP: the caller's Debug.
DebugArgs == {[NoArgs EXCEPT !.debug = d] : d \in BOOLEAN}

\* A second call that sets up logging and the client (Stop, IP).
Acquire(c, ok, msg) ==
  /\ args.debug => ok
  /\ Step(c, "createLibMachineClient", "createLibMachineClient", ok, "Load", msg)
  /\ Noted(ok)
  /\ res' = CreateLibMachineClient(res, args.debug, ok)
  /\ UNCHANGED <<world, lastStartFailed, cmd, args, entry, retry>>

\* Lines 436-442: defer unsetMachineLogging(), then setMachineLogging.
Stop_setMachineLogging ==
  \E a \in DebugArgs, ok \in BOOLEAN :
    Enter("Stop", a, "setMachineLogging", ok, "createLibMachineClient",
          "Cannot initialize logging",
          SetMachineLogging(Deferred(NoRes, "unsetMachineLogging"), a.debug, ok))

Stop_createLibMachineClient ==
  \E ok \in BOOLEAN : Acquire("Stop", ok, "Cannot initialize libmachine")

Stop_Load ==
  \E ok \in BOOLEAN :
    /\ ok => recorded
    /\ Call("Stop", "Load", "Load", ok, "GetState", "Cannot load machine")

\* Line 455: state, _ := host.Driver.GetState(); on error state is the zero
\* value of state.State.
Stop_GetState ==
  /\ cmd = "Stop" /\ pc = "GetState"
  /\ \E ok \in BOOLEAN :
       /\ Called("GetState", IF ok THEN "ok" ELSE "err")
       /\ loc' = [loc EXCEPT !.state = IF ok THEN vmState ELSE "None",
                             !.allOk = loc.allOk /\ ok]
       /\ Goto("HostStop")
  /\ UNCHANGED <<world, frame, retry>>

\* StopResult with the state the VM has after the stop.
StopResult_StateAfterStop(state) ==
  [NoResult EXCEPT !.success = TRUE, !.state = "Stopped"]

\* Lines 461-465: the result of a Stop that stopped the VM; state is the
\* local variable of line 455.
StopResult(state) == [NoResult EXCEPT !.success = TRUE, !.state = state]

Stop_HostStop ==
  /\ cmd = "Stop" /\ pc = "HostStop"
  /\ \E ok \in BOOLEAN :
       /\ ok => vmState # "None"
       /\ Called("Stop", IF ok THEN "ok" ELSE "err")
       /\ Noted(ok)
       /\ IF ok THEN /\ Return(StopResult(loc.state))
                     /\ Rebooted("Stopped")
          ELSE /\ Return(ErrorResult("Cannot stop machine"))
               /\ UNCHANGED world
  /\ UNCHANGED <<frame, retry>>

\* ---------------------------------------------------------------- PowerOff

PowerOff_createLibMachineClient ==
  \E ok \in BOOLEAN :
    Enter("PowerOff", NoArgs, "createLibMachineClient", ok, "Load",
          "Cannot initialize libmachine", CreateLibMachineClient(NoRes, FALSE, ok))

PowerOff_Load ==
  \E ok \in BOOLEAN :
    /\ ok => recorded
    /\ Call("PowerOff", "Load", "Load", ok, "HostKill", "Cannot load machine")

\* HostKilled with the error of host.Kill() dropped.
HostKilled_ErrorDropped(ok) == Return([NoResult EXCEPT !.success = TRUE])

\* What PowerOff returns after host.Kill() returned (lines 480-487).
HostKilled(ok) ==
  Return(IF ok THEN [NoResult EXCEPT !.success = TRUE]
         ELSE ErrorResult("Cannot kill machine"))

PowerOff_HostKill ==
  /\ cmd = "PowerOff" /\ pc = "HostKill"
  /\ \E ok \in BOOLEAN :
       /\ ok => vmState # "None"
       /\ Called("Kill", IF ok THEN "ok" ELSE "err")
       /\ Noted(ok)
       /\ HostKilled(ok)
       /\ IF ok THEN Rebooted("Stopped") ELSE UNCHANGED world
  /\ UNCHANGED <<frame, retry>>

\* ------------------------------------------------------------------ Delete

Delete_createLibMachineClient ==
  \E ok \in BOOLEAN :
    Enter("Delete", NoArgs, "createLibMachineClient", ok, "Load",
          "Cannot initialize libmachine", CreateLibMachineClient(NoRes, FALSE, ok))

Delete_Load ==
  \E ok \in BOOLEAN :
    /\ ok => recorded
    /\ Call("Delete", "Load", "Load", ok, "DriverRemove", "Cannot load machine")

\* DriverRemoved with the driver's error dropped.
DriverRemoved_ErrorDropped(ok) == Goto("Remove")

\* The position after host.Driver.Remove() returned (lines 502-504).
DriverRemoved(ok) == OkOrError(ok, "Remove", "Driver cannot remove machine")

Delete_DriverRemove ==
  /\ cmd = "Delete" /\ pc = "DriverRemove"
  /\ \E ok \in BOOLEAN :
       /\ Called("Driver.Remove", IF ok THEN "ok" ELSE "err")
       /\ Noted(ok)
       /\ DriverRemoved(ok)
       /\ IF ok THEN Rebooted("None") ELSE UNCHANGED world
  /\ UNCHANGED <<frame, retry>>

\* libMachineAPIClient.Remove(name): the record is gone on success.
Delete_Remove ==
  /\ cmd = "Delete" /\ pc = "Remove"
  /\ \E ok \in BOOLEAN :
       /\ Called("Remove", IF ok THEN "ok" ELSE "err")
       /\ Noted(ok)
       /\ IF ok THEN /\ Return([NoResult EXCEPT !.success = TRUE])
                     /\ recorded' = FALSE /\ recBundle' = "" /\ provisioned' = {}
          ELSE /\ Return(ErrorResult("Cannot remove machine"))
               /\ UNCHANGED <<recorded, recBundle, provisioned>>
  /\ UNCHANGED <<vmState, kubeletIssued, csrApproved, frame, retry>>

\* ---------------------------------------------------------------------- IP

\* Lines 517-520: setMachineLogging, with nothing deferred.
IP_setMachineLogging ==
  \E a \in DebugArgs, ok \in BOOLEAN :
    Enter("IP", a, "setMachineLogging", ok, "createLibMachineClient",
          "Cannot initialize logging", SetMachineLogging(NoRes, a.debug, ok))

IP_createLibMachineClient ==
  \E ok \in BOOLEAN : Acquire("IP", ok, "Cannot initialize libmachine")

IP_Load ==
  \E ok \in BOOLEAN :
    /\ ok => recorded
    /\ Call("IP", "Load", "Load", ok, "GetIP", "Cannot load machine")

IP_GetIP ==
  /\ cmd = "IP" /\ pc = "GetIP"
  /\ \E ok \in BOOLEAN :
       /\ Called("GetIP", IF ok THEN "ok" ELSE "err")
       /\ Noted(ok)
       /\ Return(IF ok THEN [NoResult EXCEPT !.success = TRUE, !.ip = InstanceIP]
                 ELSE ErrorResult("Cannot get IP"))
  /\ UNCHANGED <<world, frame, retry>>

\* ------------------------------------------------------------------ Status

\* The ambient proxy environment is the only input of the read-only commands.
ProxyArgs == {[NoArgs EXCEPT !.proxy = p] : p \in {NoProxyEnv, HttpProxyEnv}}

Status_createLibMachineClient ==
  \E a \in ProxyArgs, ok \in BOOLEAN :
    Enter("Status", a, "createLibMachineClient", ok, "Exists",
          "Cannot initialize libmachine", CreateLibMachineClient(NoRes, FALSE, ok))

\* Line 550: only the error of Exists is looked at.
Status_Exists ==
  \E ok \in BOOLEAN :
    Call("Status", "Exists", "Exists", ok, "Load", "Cannot check if machine exists")

Status_Load ==
  \E ok \in BOOLEAN :
    /\ ok => recorded
    /\ Call("Status", "Load", "Load", ok, "GetState", "Cannot load machine")

\* Lines 604-611: the result of a Status that ran to its end.
StatusResult(crcStatus, openshiftStatus, diskUse, diskSize) ==
  [NoResult EXCEPT !.success = TRUE, !.status = crcStatus,
                   !.openshiftStatus = openshiftStatus,
                   !.diskUse = diskUse, !.diskSize = diskSize]

\* Lines 555-568: a VM that is not running is reported as "Stopped", with no
\* disk figures.
Status_GetState ==
  /\ cmd = "Status" /\ pc = "GetState"
  /\ \E ok \in BOOLEAN :
       /\ Called("GetState", IF ok THEN "ok" ELSE "err")
       /\ loc' = [loc EXCEPT !.vmState = IF ok THEN vmState ELSE loc.vmState,
                             !.allOk = loc.allOk /\ ok]
       /\ IF ~ok THEN Return(ErrorResult("Cannot get machine state"))
          ELSE IF IsRunning(vmState) THEN Goto("getBundleMetadataFromDriver")
          ELSE Return(StatusResult(vmState, "Stopped", 0, 0))
  /\ UNCHANGED <<world, frame, retry>>

Status_getBundleMetadataFromDriver ==
  \E ok \in BOOLEAN :
    Call("Status", "getBundleMetadataFromDriver", "getBundleMetadataFromDriver", ok,
         "getProxyConfig", "Error loading bundle metadata")

\* Lines 573-577.
Status_getProxyConfig ==
  /\ \E ok \in BOOLEAN :
       /\ Step("Status", "getProxyConfig", "getProxyConfig", ok,
               "GetClusterOperatorsStatus", "Error getting proxy configuration")
       /\ loc' = IF ok THEN ProxyApplied(loc, recBundle)
                 ELSE [loc EXCEPT !.allOk = FALSE]
  /\ UNCHANGED <<world, frame, retry>>

\* cluster.Status: the flags of the operators' aggregate state.
OperatorsStatus == [Available : BOOLEAN, Degraded : BOOLEAN, Progressing : BOOLEAN]

\* Lines 589-593.
RunningStatus(openshiftVersion) ==
  IF openshiftVersion # "" THEN "Running (v4.6)" ELSE "Running (v4.x)"

\* OpenshiftStatus with Degraded looked at before Available.
OpenshiftStatus_DegradedFirst(operatorsStatus, err, openshiftVersion) ==
  IF operatorsStatus.Degraded THEN "Degraded"
  ELSE IF operatorsStatus.Available THEN RunningStatus(openshiftVersion)
  ELSE IF operatorsStatus.Progressing THEN "Starting"
  ELSE IF err THEN "Not Reachable"
  ELSE "Stopped"

\* Lines 583-598: openshiftStatus after GetClusterOperatorsStatus returned
\* operatorsStatus with or without an error.  The switch runs in both cases.
OpenshiftStatus(operatorsStatus, err, openshiftVersion) ==
  IF operatorsStatus.Available THEN RunningStatus(openshiftVersion)
  ELSE IF operatorsStatus.Degraded THEN "Degraded"
  ELSE IF operatorsStatus.Progressing THEN "Starting"
  ELSE IF err THEN "Not Reachable"
  ELSE "Stopped"

Status_GetClusterOperatorsStatus ==
  /\ cmd = "Status" /\ pc = "GetClusterOperatorsStatus"
  /\ \E ok \in BOOLEAN, operatorsStatus \in OperatorsStatus :
       /\ Called("GetClusterOperatorsStatus", IF ok THEN "ok" ELSE "err")
       /\ loc' = [loc EXCEPT !.openshiftStatus =
                      OpenshiftStatus(operatorsStatus, ~ok, GetOpenshiftVersion(recBundle)),
                    !.operatorsStatus = operatorsStatus,
                    !.allOk = loc.allOk /\ ok]
       /\ Goto("GetRootPartitionUsage")
  /\ UNCHANGED <<world, frame, retry>>

\* cluster.GetRootPartitionUsage: its failure fails Status (lines 599-602).
Status_GetRootPartitionUsage ==
  /\ cmd = "Status" /\ pc = "GetRootPartitionUsage"
  /\ \E ok \in BOOLEAN, diskSize \in 1..MaxDisk, diskUse \in 1..MaxDisk :
       /\ diskUse <= diskSize
       /\ ~ok => diskSize = 1
       /\ Called("GetRootPartitionUsage", IF ok THEN "ok" ELSE "err")
       /\ Noted(ok)
       /\ Return(IF ok THEN StatusResult(loc.vmState, loc.openshiftStatus, diskUse, diskSize)
                 ELSE ErrorResult("Cannot get root partition usage"))
  /\ UNCHANGED <<world, frame, retry>>

\* ---------------------------------------------------------- GetProxyConfig

GetProxyConfig_createLibMachineClient ==
  \E a \in ProxyArgs, ok \in BOOLEAN :
    Enter("GetProxyConfig", a, "createLibMachineClient", ok, "Load",
          "Cannot initialize libmachine", CreateLibMachineClient(NoRes, FALSE, ok))

GetProxyConfig_Load ==
  \E ok \in BOOLEAN :
    /\ ok => recorded
    /\ Call("GetProxyConfig", "Load", "Load", ok, "getBundleMetadataFromDriver",
            "Cannot load machine")

GetProxyConfig_getBundleMetadataFromDriver ==
  \E ok \in BOOLEAN :
    Call("GetProxyConfig", "getBundleMetadataFromDriver", "getBundleMetadataFromDriver",
         ok, "getClusterConfig", "Error loading bundle metadata")

GetProxyConfig_getClusterConfig ==
  /\ cmd = "GetProxyConfig" /\ pc = "getClusterConfig"
  /\ \E ok \in BOOLEAN :
       /\ Called("getClusterConfig", IF ok THEN "ok" ELSE "err")
       /\ Noted(ok)
       /\ Return(IF ok THEN [NoResult EXCEPT !.success = TRUE]
                 ELSE ErrorResult("Error loading cluster configuration"))
  /\ UNCHANGED <<world, frame, retry>>

\* ----------------------------------------------------------- GetConsoleURL

GetConsoleURL_createLibMachineClient ==
  \E a \in ProxyArgs, ok \in BOOLEAN :
    Enter("GetConsoleURL", a, "createLibMachineClient", ok, "Load",
          "Cannot initialize libmachine", CreateLibMachineClient(NoRes, FALSE, ok))

GetConsoleURL_Load ==
  \E ok \in BOOLEAN :
    /\ ok => recorded
    /\ Call("GetConsoleURL", "Load", "Load", ok, "GetState", "Cannot load machine")

\* StateRead with GetConsoleURL refusing a VM that is not running.
StateRead_RunningRequired(ok, st) ==
  OkOrError(ok /\ IsRunning(st), "getBundleMetadataFromDriver",
            "Error getting the state for host")

\* The position after host.Driver.GetState() returned st (lines 724-727):
\* only its error is looked at, the state is kept for the result.
StateRead(ok, st) ==
  OkOrError(ok, "getBundleMetadataFromDriver", "Error getting the state for host")

GetConsoleURL_GetState ==
  /\ cmd = "GetConsoleURL" /\ pc = "GetState"
  /\ \E ok \in BOOLEAN :
       /\ Called("GetState", IF ok THEN "ok" ELSE "err")
       /\ StateRead(ok, vmState)
       /\ loc' = [loc EXCEPT !.state = IF ok THEN vmState ELSE loc.state,
                             !.allOk = loc.allOk /\ ok]
  /\ UNCHANGED <<world, frame, retry>>

GetConsoleURL_getBundleMetadataFromDriver ==
  \E ok \in BOOLEAN :
    Call("GetConsoleURL", "getBundleMetadataFromDriver", "getBundleMetadataFromDriver",
         ok, "getClusterConfig", "Error loading bundle metadata")

GetConsoleURL_getClusterConfig ==
  /\ cmd = "GetConsoleURL" /\ pc = "getClusterConfig"
  /\ \E ok \in BOOLEAN :
       /\ Called("getClusterConfig", IF ok THEN "ok" ELSE "err")
       /\ Noted(ok)
       /\ Return(IF ok THEN [NoResult EXCEPT !.success = TRUE, !.state = loc.state]
                 ELSE ErrorResult("Error loading cluster configuration"))
  /\ UNCHANGED <<world, frame, retry>>

\* ----------------------------------------------------------- specification

\* The deferred functions run and the command returns to its caller; the
\* next command may be entered.
Returned ==
  /\ cmd # "none" /\ pc = "done"
  /\ res' = RunDeferred(res)
  /\ lastStartFailed' = IF cmd = "Start" THEN ~result.success ELSE lastStartFailed
  /\ cmd' = "none" /\ pc' = "idle" /\ args' = NoArgs /\ loc' = NoLoc
  /\ trace' = <<>> /\ result' = NoResult /\ entry' = NoEntry
  /\ UNCHANGED <<world, retry>>

Init ==
  /\ recorded = FALSE /\ recBundle = "" /\ vmState = "None"
  /\ provisioned = {} /\ kubeletIssued = FALSE /\ csrApproved = FALSE
  /\ lastStartFailed = FALSE
  /\ cmd = "none" /\ pc = "idle" /\ args = NoArgs /\ loc = NoLoc
  /\ trace = <<>> /\ result = NoResult /\ retry = IdleRetry /\ entry = NoEntry
  /\ res = NoRes

StartNext ==
  \/ Start_createLibMachineClient \/ Start_Exists \/ Start_GetPullSecret
  \/ Start_getCrcBundleInfo \/ Start_CheckDiskImageSize \/ Start_createHost
  \/ Start_Load \/ Start_getBundleMetadataFromDriver \/ Start_GetState
  \/ Start_DriverStart \/ Start_Save \/ Start_getClusterConfig \/ Start_Reload
  \/ Start_GetState2 \/ Start_WaitForSSH \/ Start_CheckCertsValidity
  \/ Start_addNameServerToInstance \/ Start_GetIP \/ Start_DetermineHostIP
  \/ Start_getProxyConfig \/ Start_RunPostStart \/ Start_CheckCRCLocalDNSReachable
  \/ Start_CheckCRCPublicDNSReachable \/ Start_CheckCRCLocalDNSReachableFromHost
  \/ Start_updateSSHKeyPair \/ Start_CopyFileContents \/ Start_RunPrivate
  \/ Start_RegenerateCertificates \/ Start_StartKubelet
  \/ Start_AddProxyConfigToCluster \/ Start_AddProxyToKubeletAndCriO
  \/ Start_RestartCrio \/ Start_RestartKubelet \/ Start_AddPullSecret
  \/ Start_UpdateClusterID \/ Start_IsActive \/ Start_WaitforRequestHeaderClientCaFile
  \/ Start_DeleteOpenshiftAPIServerPods \/ Start_Sleep \/ Start_ApproveNodeCSR
  \/ Start_waitForProxyPropagation

OtherNext ==
  \/ Stop_setMachineLogging \/ Stop_createLibMachineClient \/ Stop_Load
  \/ Stop_GetState \/ Stop_HostStop
  \/ PowerOff_createLibMachineClient \/ PowerOff_Load \/ PowerOff_HostKill
  \/ Delete_createLibMachineClient \/ Delete_Load \/ Delete_DriverRemove
  \/ Delete_Remove
  \/ IP_setMachineLogging \/ IP_createLibMachineClient \/ IP_Load \/ IP_GetIP
  \/ Status_createLibMachineClient \/ Status_Exists \/ Status_Load
  \/ Status_GetState \/ Status_getBundleMetadataFromDriver \/ Status_getProxyConfig
  \/ Status_GetClusterOperatorsStatus \/ Status_GetRootPartitionUsage
  \/ GetProxyConfig_createLibMachineClient \/ GetProxyConfig_Load
  \/ GetProxyConfig_getBundleMetadataFromDriver \/ GetProxyConfig_getClusterConfig
  \/ GetConsoleURL_createLibMachineClient \/ GetConsoleURL_Load
  \/ GetConsoleURL_GetState \/ GetConsoleURL_getBundleMetadataFromDriver
  \/ GetConsoleURL_getClusterConfig

Next == StartNext \/ OtherNext \/ Returned

Spec == Init /\ [][Next]_vars

\* ---- errors.RetryAfter on its own: any limit, any interval, any callback

RetryInit ==
  /\ recorded = FALSE /\ recBundle = "" /\ vmState = "None"
  /\ provisioned = {} /\ kubeletIssued = FALSE /\ csrApproved = FALSE
  /\ lastStartFailed = FALSE
  /\ cmd = "RetryAfter" /\ pc = "callback" /\ args = NoArgs /\ loc = NoLoc
  /\ trace = <<>> /\ result = NoResult /\ entry = NoEntry /\ res = NoRes
  /\ \E limit \in 1..MaxAttempts, d \in 1..MaxInterval : retry = NewRetry(limit, d)

\* One iteration: the callback is called and returns nil, a RetriableError
\* or another error.
RetryAfter_callback ==
  /\ cmd = "RetryAfter" /\ retry.status = "running"
  /\ \E out \in {"ok", "retriable", "fatal"} :
       /\ retry' = RetryAfterStep(retry, out)
       /\ Called("callback", out)
  /\ UNCHANGED <<world, lastStartFailed, cmd, pc, args, loc, result, entry, res>>

RetrySpec == RetryInit /\ [][RetryAfter_callback]_vars

\* ---- getProxyConfig on its own: any ambient configuration, any bundle

ProxyInit ==
  /\ recorded = FALSE /\ recBundle = "" /\ vmState = "None"
  /\ provisioned = {} /\ kubeletIssued = FALSE /\ csrApproved = FALSE
  /\ lastStartFailed = FALSE
  /\ cmd = "getProxyConfig" /\ pc = "NewProxyConfig" /\ loc = NoLoc
  /\ trace = <<>> /\ result = NoResult /\ entry = NoEntry /\ res = NoRes
  /\ retry = IdleRetry
  /\ \E b \in Bundles, env \in ProxyEnvs :
       args = [NoArgs EXCEPT !.bundle = b, !.proxy = env]

\* getProxyConfig(BaseDomain(args.bundle)) is called: NewProxyConfig returns
\* the configuration, or an error.
getProxyConfig_call ==
  /\ cmd = "getProxyConfig" /\ pc = "NewProxyConfig"
  /\ \E ok \in BOOLEAN :
       /\ Called("NewProxyConfig", IF ok THEN "ok" ELSE "err")
       /\ Return(IF ok THEN [NoResult EXCEPT !.success = TRUE]
                 ELSE ErrorResult("Error getting proxy configuration"))
       /\ loc' = IF ok
                   THEN [loc EXCEPT !.proxyConfig =
                           getProxyConfig(args.proxy, BaseDomain(args.bundle))]
                   ELSE [loc EXCEPT !.allOk = FALSE]
  /\ UNCHANGED <<world, frame, retry>>

ProxySpec == ProxyInit /\ [][getProxyConfig_call]_vars

\* -------------------------------------------------------------- properties

\* The values the variables take.
TypeOK ==
  /\ recorded \in BOOLEAN /\ recBundle \in Bundles \cup {""} /\ vmState \in VMStates
  /\ recorded = (recBundle # "")
  /\ provisioned \subseteq FirstBootSteps
  /\ kubeletIssued \in BOOLEAN /\ csrApproved \in BOOLEAN /\ lastStartFailed \in BOOLEAN
  /\ loc.vmState \in VMStates /\ loc.state \in VMStates
  /\ retry.attempts <= retry.limit
  /\ (cmd = "none") = (pc = "idle")
  /\ (result # NoResult) => pc = "done"
  /\ res.clients \in 0..1 /\ res.logs \in 0..2 /\ Len(res.deferred) <= 2
  /\ loc.attempts \in {0, HostIPAttempts, ProxyAttempts}

\* The calls that change the VM or the record: the driver's Create, Start,
\* Stop, Kill and Remove, and the store's Save and Remove.
MutationCalls == {"Create", "Driver.Start", "Stop", "Kill", "Driver.Remove", "Save", "Remove"}

Mutated == \E i \in 1..Len(trace) : trace[i].call \in MutationCalls

\* The call was made with outcome out before a call to later was made.
Before(call, out, later) ==
  \E i, j \in 1..Len(trace) :
    i < j /\ trace[i].call = call /\ trace[i].out = out /\ trace[j].call = later

StartDone == cmd = "Start" /\ pc = "done"

\* C1: a Start entered while the instance is recorded with the requested
\* bundle and its VM is running makes no call that changes the VM or the
\* record (whether or not its queries succeed).
C1_StartOnRunningMutatesNothing ==
  (StartDone /\ entry.recorded /\ entry.recBundle = args.bundle
     /\ entry.vmState = "Running")
    => ~Mutated

\* C2: a Start entered while the instance is recorded with a bundle other
\* than the requested one fails and makes no call that changes the VM or the
\* record, whatever the state of the VM.
C2_BundleMismatchFailsWithoutMutation ==
  (StartDone /\ entry.recorded /\ entry.recBundle # args.bundle)
    => (~result.success /\ ~Mutated)

\* C3: in Delete the store's Remove is called only after the driver's Remove
\* returned success; when the driver's Remove fails the store's Remove is not
\* called, the record still exists and Delete returns an error.
C3_DeleteOrdering ==
  cmd = "Delete" =>
    /\ Invoked("Remove") => Before("Driver.Remove", "ok", "Remove")
    /\ (\E i \in 1..Len(trace) : trace[i] = [call |-> "Driver.Remove", out |-> "err"])
         => (~Invoked("Remove") /\ recorded /\ pc = "done" /\ ~result.success)

\* C3, its case: a Delete whose driver Remove failed has returned.
C3_DriverRemoveFailed ==
  /\ cmd = "Delete" /\ pc = "done"
  /\ trace[Len(trace)] = [call |-> "Driver.Remove", out |-> "err"]

\* C4: a Status of a running instance whose operator-status query returns an
\* error, and whose disk query succeeds, returns success with the cluster
\* status "Not Reachable", whatever flags come with the error.
C4_StatusNotReachable ==
  (cmd = "Status" /\ pc = "done"
     /\ [call |-> "GetClusterOperatorsStatus", out |-> "err"] \in {trace[i] : i \in 1..Len(trace)}
     /\ trace[Len(trace)] = [call |-> "GetRootPartitionUsage", out |-> "ok"])
    => (result.success /\ result.openshiftStatus = "Not Reachable")

\* C5: Start returns success only for an instance whose first-boot steps (SSH
\* key installed, kubeconfig copied locally and into the VM) were completed.
C5_SuccessOnlyWhenProvisioned ==
  (StartDone /\ result.success) => provisioned = FirstBootSteps

\* C6: a Start that follows a failed Start, and in which no collaborator
\* returns an error, returns success only when the kubelet start was issued
\* and the node CSR approved for the VM that is running.
C6_RetriedStartConfiguresCluster ==
  (StartDone /\ lastStartFailed /\ loc.allOk /\ result.success)
    => (kubeletIssued /\ csrApproved)

AbsentBranchCalls == <<"GetPullSecret", "getCrcBundleInfo", "CheckDiskImageSize", "NewHost", "Create">>

\* C8: when Start takes the creation branch and a step of it fails, Start
\* returns an error, Create was called at most once and not at all when an
\* earlier step failed, and no instance is recorded afterwards.
C8_FailedCreationLeavesNoRecord ==
  (StartDone /\ ~loc.exists
     /\ \E k \in 1..Len(AbsentBranchCalls) :
          trace[Len(trace)] = [call |-> AbsentBranchCalls[k], out |-> "err"])
    => /\ ~result.success
       /\ Count("Create") <= 1
       /\ (trace[Len(trace)].call # "Create" => ~Invoked("Create"))
       /\ ~recorded

\* The steps of Start in the order of the step list, each with the calls it
\* makes in the order of the code (lines 112-417).
StartSteps ==
  << <<"createLibMachineClient", "Exists", "GetPullSecret", "getCrcBundleInfo",
       "CheckDiskImageSize", "NewHost", "Create", "Load", "getBundleMetadataFromDriver",
       "GetState", "Driver.Start", "Save">>,
     <<"getClusterConfig">>,
     <<"Reload", "GetState2">>,
     <<"WaitForSSH">>,
     <<"CheckCertsValidity">>,
     <<"HasGivenNameserversConfigured", "AddNameserversToInstance">>,
     <<"GetIP", "DetermineHostIP">>,
     <<"getProxyConfig">>,
     <<"RunPostStart", "CheckCRCLocalDNSReachable", "CheckCRCPublicDNSReachable",
       "CheckCRCLocalDNSReachableFromHost">>,
     <<"updateSSHKeyPair", "CopyFileContents", "RunPrivate">>,
     <<"RegenerateCertificates">>,
     <<"StartKubelet">>,
     <<"AddProxyConfigToCluster", "AddProxyToKubeletAndCriO", "RestartCrio",
       "RestartKubelet", "AddPullSecret", "UpdateClusterID">>,
     <<"IsActive", "WaitforRequestHeaderClientCaFile", "DeleteOpenshiftAPIServerPods">>,
     <<"Sleep">>,
     <<"ApproveNodeCSR">>,
     <<"waitForProxyPropagation">> >>

CallNames == UNION {{StartSteps[k][n] : n \in 1..Len(StartSteps[k])} : k \in 1..Len(StartSteps)}

\* The step of the list that makes the call, and the call's place in it.
StepOf ==
  [call \in CallNames |->
     CHOOSE k \in 1..Len(StartSteps) : \E n \in 1..Len(StartSteps[k]) : StartSteps[k][n] = call]

PlaceOf ==
  [call \in CallNames |->
     CHOOSE n \in 1..Len(StartSteps[StepOf[call]]) : StartSteps[StepOf[call]][n] = call]

Earlier(a, b) ==
  \/ StepOf[a] < StepOf[b]
  \/ StepOf[a] = StepOf[b] /\ PlaceOf[a] < PlaceOf[b]

\* The calls whose error Start does not return: the existence query (line
\* 122), the public DNS check (line 312), the propagation wait (line 416).
NonFatalCalls == {"Exists", "CheckCRCPublicDNSReachable", "waitForProxyPropagation"}

\* The restarts that configProxyForCluster defers, run after a failed push.
DeferredCalls == {"RestartCrio", "RestartKubelet"}

FatalFailure(e) == e.out = "err" /\ e.call \notin NonFatalCalls

\* C9: the calls of one Start are made in the order of the step list; after a
\* call that failed fatally no later step is invoked (only the deferred
\* restarts of the same step run); DNS bring-up is invoked only after the
\* host-IP discovery succeeded.
C9_StepsInOrder ==
  cmd = "Start" =>
    /\ \A i \in 1..Len(trace) :
         /\ i < Len(trace) => Earlier(trace[i].call, trace[i + 1].call)
         /\ FatalFailure(trace[i]) =>
              \A j \in (i + 1)..Len(trace) :
                /\ trace[j].call \in DeferredCalls
                /\ StepOf[trace[j].call] = StepOf[trace[i].call]
    /\ Invoked("RunPostStart") => Before("DetermineHostIP", "ok", "RunPostStart")
    /\ (pc # "done" /\ ~(pc \in DeferredCalls))
         => \A i \in 1..Len(trace) : ~FatalFailure(trace[i])

\* C9, its case: the host IP was found and the step after it failed.
C9_FailedAfterHostIP ==
  /\ StartDone /\ ~result.success
  /\ InvokedOk("DetermineHostIP")
  /\ trace[Len(trace)] = [call |-> "RunPostStart", out |-> "err"]

\* C10: RetryAfter(limit, callback, d) calls the callback at most limit
\* times; it stops at the first nil and at the first error that is not
\* retriable; when every attempt returns a retriable error it sleeps limit-1
\* times (at most (limit-1)*d in all) and returns the last error.
C10_RetryBound ==
  cmd = "RetryAfter" =>
    /\ retry.attempts = Len(trace) /\ retry.attempts <= retry.limit
    /\ \A i \in 1..Len(trace) : i < Len(trace) => trace[i].out = "retriable"
    /\ retry.status = "running" => retry.attempts < retry.limit
    /\ retry.status = "ok" => trace[Len(trace)].out = "ok"
    /\ retry.status = "aborted"
         => (trace[Len(trace)].out = "fatal" /\ retry.err = Len(trace))
    /\ retry.waits + 1 <= retry.limit /\ retry.elapsed = retry.waits * retry.d
    /\ retry.elapsed + retry.d <= retry.limit * retry.d
    /\ retry.status = "exhausted"
         => /\ retry.attempts = retry.limit /\ retry.waits + 1 = retry.limit
            /\ trace[Len(trace)].out = "retriable" /\ retry.err = retry.limit

\* C10, its case: every attempt of a limit above one was retriable.
C10_Exhausted ==
  /\ cmd = "RetryAfter" /\ retry.status = "exhausted" /\ retry.limit > 1
  /\ \A i \in 1..Len(trace) : trace[i].out = "retriable"

\* C11: when getProxyConfig(domain) returns a configuration, it has the
\* ambient proxy URLs; if one of them is set, "." + domain is in its no-proxy
\* list; if none is set the configuration is not enabled, whatever its
\* no-proxy list holds.
C11_NoProxyHasBaseDomain ==
  (cmd = "getProxyConfig" /\ pc = "done" /\ result.success) =>
    /\ loc.proxyConfig.HttpProxy = args.proxy.http
    /\ loc.proxyConfig.HttpsProxy = args.proxy.https
    /\ (args.proxy.http # "" \/ args.proxy.https # "")
         => ("." \o BaseDomain(args.bundle)) \in loc.proxyConfig.noProxy
    /\ (args.proxy.http = "" /\ args.proxy.https = "")
         => (~IsEnabled(loc.proxyConfig) /\ loc.proxyConfig.noProxy = args.proxy.noProxy)

\* C11, its case: a configuration returned for an HTTPS proxy whose ambient
\* no-proxy list is not empty and lacks the base domain.
C11_DomainAdded ==
  /\ cmd = "getProxyConfig" /\ pc = "done" /\ result.success
  /\ args.proxy.https # "" /\ args.proxy.http = ""
  /\ ~(("." \o BaseDomain(args.bundle)) \in args.proxy.noProxy)
  /\ args.proxy.noProxy # {}

\* C12: whenever an entry point has returned, the client it created is
\* closed and every log file it opened is closed.
C12_EverythingReleased ==
  cmd = "none" => (res.clients = 0 /\ res.logs = 0 /\ res.deferred = <<>>)

\* The calls of the first-boot-only steps of Start.
FirstBootCalls ==
  {"updateSSHKeyPair", "CopyFileContents", "RunPrivate", "AddProxyConfigToCluster",
   "AddProxyToKubeletAndCriO", "AddPullSecret", "UpdateClusterID"}

\* The call was made with the outcome out.
Made(call, out) == \E i \in 1..Len(trace) : trace[i] = [call |-> call, out |-> out]

\* C13: a Start makes a first-boot-only call only when it created the
\* instance itself, never when it found the instance recorded (it loaded it);
\* a Start that created the instance and reached the kubelet start has
\* replaced the SSH key and copied the kubeconfig to both places, and one
\* that reached the kubelet-active check has also pushed the proxy (when one
\* is enabled), injected the pull secret and updated the cluster ID.
C13_FirstBootOnlyWhenCreated ==
  cmd = "Start" =>
    /\ (\E i \in 1..Len(trace) : trace[i].call \in FirstBootCalls)
         => (Made("Create", "ok") /\ ~loc.exists /\ ~Invoked("Load"))
    /\ (Made("Create", "ok") /\ (Invoked("StartKubelet") \/ Invoked("RegenerateCertificates")))
         => /\ Made("updateSSHKeyPair", "ok") /\ Made("CopyFileContents", "ok")
            /\ Made("RunPrivate", "ok")
    /\ (Made("Create", "ok") /\ Invoked("IsActive"))
         => /\ Made("AddPullSecret", "ok") /\ Made("UpdateClusterID", "ok")
            /\ IsEnabled(loc.proxyConfig)
                 => (Made("AddProxyConfigToCluster", "ok")
                       /\ Made("AddProxyToKubeletAndCriO", "ok"))

\* C13, its case: a Start that created the instance, with a proxy, ran to
\* its end.
C13_CreatedAndConfigured ==
  /\ StartDone /\ result.success /\ Made("Create", "ok")
  /\ Made("AddProxyConfigToCluster", "ok") /\ Made("UpdateClusterID", "ok")

\* C14: the renewal is run only after the probe reported Expired, and is run
\* before the kubelet start whenever it did; after a probe that reported the
\* certificates valid there is no renewal; any other failure of the probe ends
\* Start with the probe's error, nothing called after it.
C14_RenewalIffExpired ==
  cmd = "Start" =>
    /\ Invoked("RegenerateCertificates") => Made("CheckCertsValidity", "Expired")
    /\ (Made("CheckCertsValidity", "Expired")
          /\ (pc = "StartKubelet" \/ Invoked("StartKubelet")))
         => Made("RegenerateCertificates", "ok")
    /\ Made("CheckCertsValidity", "ok")
         => (~loc.needsCertsRenewal /\ ~Invoked("RegenerateCertificates")
               /\ pc # "RegenerateCertificates")
    /\ Made("CheckCertsValidity", "CheckFailed")
         => /\ pc = "done" /\ ~result.success
            /\ result.msg = "Failed to check certificate validity"
            /\ trace[Len(trace)].call = "CheckCertsValidity"

\* C14, its case: the probe reported Expired, the renewal succeeded and Start
\* ran to its end.
C14_RenewedAndStarted ==
  /\ StartDone /\ result.success
  /\ Made("CheckCertsValidity", "Expired") /\ Made("RegenerateCertificates", "ok")

\* The steps of Start that follow the host-IP discovery and that the claims
\* name: DNS bring-up, kubelet start, CSR approval.
LaterCalls ==
  {"getProxyConfig", "RunPostStart", "CheckCRCLocalDNSReachable",
   "CheckCRCPublicDNSReachable", "CheckCRCLocalDNSReachableFromHost", "StartKubelet",
   "ApproveNodeCSR"}

\* C15: the host-IP determination is attempted at most 30 times; the loop is
\* left at the first success; it fails only after 30 failed attempts, and then
\* Start fails with "Error determining host IP" and makes no later call.
C15_HostIPDiscoveryBounded ==
  cmd = "Start" =>
    /\ pc = "DetermineHostIP"
         => /\ retry.limit = HostIPAttempts /\ retry.attempts < HostIPAttempts
            /\ ~Invoked("DetermineHostIP")
    /\ Count("DetermineHostIP") <= 1
    /\ Made("DetermineHostIP", "ok") => pc # "DetermineHostIP"
    /\ Made("DetermineHostIP", "err")
         => /\ loc.attempts = HostIPAttempts
            /\ pc = "done" /\ ~result.success
            /\ result.msg = "Error determining host IP"
            /\ trace[Len(trace)].call = "DetermineHostIP"
            /\ \A i \in 1..Len(trace) : trace[i].call \notin LaterCalls

\* C15, its case: all 30 attempts failed.
C15_HostIPExhausted ==
  /\ StartDone /\ loc.attempts = HostIPAttempts
  /\ trace[Len(trace)] = [call |-> "DetermineHostIP", out |-> "err"]

\* C16: the propagation wait is made when and only when the proxy
\* configuration is enabled, right after the node CSR was approved; it polls
\* at most 60 times and fails only after 60 failed polls; whatever it
\* returns, Start returns success.
C16_PropagationWaitNeverFatal ==
  cmd = "Start" =>
    /\ (pc = "waitForProxyPropagation" \/ Invoked("waitForProxyPropagation"))
         => /\ IsEnabled(loc.proxyConfig)
            /\ LET n == Len(trace) IN
               IF trace[n].call = "waitForProxyPropagation"
                 THEN trace[n - 1] = [call |-> "ApproveNodeCSR", out |-> "ok"]
                 ELSE trace[n] = [call |-> "ApproveNodeCSR", out |-> "ok"]
    /\ pc = "waitForProxyPropagation"
         => (retry.limit = ProxyAttempts /\ retry.attempts < ProxyAttempts)
    /\ (Made("ApproveNodeCSR", "ok") /\ IsEnabled(loc.proxyConfig) /\ pc = "done")
         => Invoked("waitForProxyPropagation")
    /\ Invoked("waitForProxyPropagation")
         => /\ pc = "done" /\ result = StartResult /\ result.success
            /\ Made("waitForProxyPropagation", "err") => loc.attempts = ProxyAttempts

\* C16, its case: all 60 polls failed and Start returned success.
C16_ExhaustedStillSuccess ==
  /\ StartDone /\ result.success /\ loc.attempts = ProxyAttempts
  /\ trace[Len(trace)] = [call |-> "waitForProxyPropagation", out |-> "err"]

\* The checks of the DNS bring-up whose failure fails Start.
FatalDNSCalls ==
  {"RunPostStart", "CheckCRCLocalDNSReachable", "CheckCRCLocalDNSReachableFromHost"}

\* C17: whatever the public-name check returns, Start goes on to the host's
\* internal-name check; a failure of the in-VM DNS start or of one of the two
\* internal-name checks ends Start with an error, the kubelet start not
\* issued.
C17_PublicDNSNonFatal ==
  cmd = "Start" =>
    /\ \A i \in 1..Len(trace) :
         trace[i].call = "CheckCRCPublicDNSReachable" =>
           IF i = Len(trace) THEN pc = "CheckCRCLocalDNSReachableFromHost"
           ELSE trace[i + 1].call = "CheckCRCLocalDNSReachableFromHost"
    /\ \A i \in 1..Len(trace) :
         (trace[i].call \in FatalDNSCalls /\ trace[i].out = "err") =>
           /\ i = Len(trace) /\ pc = "done" /\ ~result.success
           /\ ~Invoked("StartKubelet")
    /\ (pc = "StartKubelet" \/ Invoked("StartKubelet")) =>
         \A c \in FatalDNSCalls : Made(c, "ok")

\* C17, its case: the public-name check failed and Start returned success.
C17_PublicFailedStartSucceeded ==
  /\ StartDone /\ result.success /\ Made("CheckCRCPublicDNSReachable", "err")

\* The calls of configProxyForCluster.
ProxyConfigCalls ==
  {"AddProxyConfigToCluster", "AddProxyToKubeletAndCriO", "RestartCrio", "RestartKubelet"}

\* C18: the proxy is pushed only in the first-boot configuration with a proxy
\* enabled; once the push was attempted, crio is restarted and then kubelet,
\* whatever the pushes and the crio restart returned; without a proxy none of
\* the pushes and restarts is made.
C18_RestartsAfterProxyPush ==
  cmd = "Start" =>
    /\ (\E i \in 1..Len(trace) : trace[i].call \in ProxyConfigCalls)
         => (IsEnabled(loc.proxyConfig) /\ ~loc.exists /\ Invoked("AddProxyConfigToCluster"))
    /\ \A i \in 1..Len(trace) :
         /\ trace[i].call = "AddProxyConfigToCluster" =>
              IF i = Len(trace)
                THEN pc = (IF trace[i].out = "ok" THEN "AddProxyToKubeletAndCriO"
                           ELSE "RestartCrio")
                ELSE trace[i + 1].call = (IF trace[i].out = "ok"
                                            THEN "AddProxyToKubeletAndCriO"
                                            ELSE "RestartCrio")
         /\ trace[i].call = "AddProxyToKubeletAndCriO" =>
              IF i = Len(trace) THEN pc = "RestartCrio"
              ELSE trace[i + 1].call = "RestartCrio"
         /\ trace[i].call = "RestartCrio" =>
              IF i = Len(trace) THEN pc = "RestartKubelet"
              ELSE trace[i + 1].call = "RestartKubelet"
    /\ (Invoked("StartKubelet") /\ ~IsEnabled(loc.proxyConfig))
         => \A i \in 1..Len(trace) : trace[i].call \notin ProxyConfigCalls

\* C18, its case: the push into the cluster and the crio restart failed, and
\* the kubelet restart was made.
C18_PushFailedRestartsRan ==
  /\ StartDone /\ Made("AddProxyConfigToCluster", "err")
  /\ Made("RestartCrio", "err") /\ Invoked("RestartKubelet")

\* C19: the client-CA wait and the API-server pod deletion are made when and
\* only when the kubelet-active check reported active; the settle delay
\* comes right before the CSR approval on both branches; the result of a
\* Start that ran to its end carries the outcome of the check.
C19_RemediationIffKubeletActive ==
  cmd = "Start" =>
    /\ (Invoked("WaitforRequestHeaderClientCaFile") \/ Invoked("DeleteOpenshiftAPIServerPods"))
         => (loc.kubeletStarted /\ Made("IsActive", "ok"))
    /\ Invoked("Sleep") =>
         /\ Made("IsActive", "ok")
         /\ loc.kubeletStarted
              => (Made("WaitforRequestHeaderClientCaFile", "ok")
                    /\ Made("DeleteOpenshiftAPIServerPods", "ok"))
         /\ pc = "ApproveNodeCSR" \/ Invoked("ApproveNodeCSR")
    /\ \A i \in 1..Len(trace) :
         /\ trace[i].call = "ApproveNodeCSR" => (i > 1 /\ trace[i - 1].call = "Sleep")
         /\ trace[i].call = "DeleteOpenshiftAPIServerPods"
              => (i > 1 /\ trace[i - 1] = [call |-> "WaitforRequestHeaderClientCaFile",
                                            out |-> "ok"])
    /\ (pc = "done" /\ Made("ApproveNodeCSR", "ok"))
         => (result.success /\ result.kubeletStarted = loc.kubeletStarted)

\* C19, its case: kubelet was not active and Start returned success.
C19_SuccessKubeletNotStarted ==
  /\ StartDone /\ result.success /\ ~result.kubeletStarted
  /\ Made("ApproveNodeCSR", "ok") /\ ~Invoked("WaitforRequestHeaderClientCaFile")

\* C20: with a proxy enabled and the VM's address read, the no-proxy list
\* applied to the process environment, the one pushed to the cluster and the
\* one the propagation check is made with all hold the base domain entry and
\* the VM's address.
C20_NoProxyHasDomainAndVMAddress ==
  (cmd = "Start" /\ IsEnabled(loc.proxyConfig) /\ Made("GetIP", "ok")) =>
    LET both == {"." \o BaseDomain(args.bundle), InstanceIP} IN
    /\ both \subseteq loc.environment.noProxy
    /\ Invoked("AddProxyConfigToCluster") => both \subseteq loc.proxyConfig.noProxy
    /\ (pc = "waitForProxyPropagation" \/ Invoked("waitForProxyPropagation"))
         => both \subseteq loc.proxyConfig.noProxy

\* The driver operation each of Stop, PowerOff and Delete issues.
DriverOperation == [Stop |-> "Stop", PowerOff |-> "Kill", Delete |-> "Driver.Remove"]

\* C21: Stop, PowerOff and Delete each issue their driver operation (graceful
\* stop, hard kill, remove) at most once per invocation, and only right after
\* the record was loaded; an invocation that returns success issued it once;
\* a failed Load or a failed driver operation ends the command at once,
\* without success.
C21_OneDriverOperationNoRetry ==
  cmd \in DOMAIN DriverOperation =>
    LET op == DriverOperation[cmd]
        n  == Len(trace) IN
    /\ Count(op) <= 1
    /\ \A i \in 1..n :
         trace[i].call = op =>
           /\ i > 1 /\ trace[i - 1].call \in {"Load", "GetState"}
           /\ Made("Load", "ok")
    /\ (pc = "done" /\ result.success) => Made(op, "ok")
    /\ (Made("Load", "err") \/ Made(op, "err"))
         => /\ pc = "done" /\ ~result.success
            /\ trace[n].out = "err"
    /\ Made("Load", "err") => ~Invoked(op)

\* C21, its case: a PowerOff whose hard kill failed has returned.
C21_KillFailed ==
  /\ cmd = "PowerOff" /\ pc = "done"
  /\ trace[Len(trace)] = [call |-> "Kill", out |-> "err"]

\* The entry points that only read.
ReadOnlyCommands == {"Status", "IP", "GetProxyConfig", "GetConsoleURL"}

\* C22: Status, IP, GetProxyConfig and GetConsoleURL make no call that
\* changes the VM or the record, and the record and the VM state are what
\* they were when the command was entered; IP, GetProxyConfig and
\* GetConsoleURL return success whenever every call they made succeeded,
\* whatever the state of the VM.
C22_ReadOnlyCommands ==
  cmd \in ReadOnlyCommands =>
    /\ ~Mutated
    /\ recorded = entry.recorded /\ recBundle = entry.recBundle
    /\ vmState = entry.vmState
    /\ (cmd # "Status" /\ pc = "done" /\ loc.allOk) => result.success
    /\ (cmd = "IP" /\ pc = "done" /\ result.success) => result.ip = InstanceIP
    /\ (cmd = "GetConsoleURL" /\ pc = "done" /\ result.success)
         => result.state = vmState

\* C22, its case: GetConsoleURL returned success for a stopped VM.
C22_ConsoleURLOfStoppedVM ==
  /\ cmd = "GetConsoleURL" /\ pc = "done" /\ result.success
  /\ vmState = "Stopped" /\ Made("GetState", "ok")

\* The version Status prints: the bundle's, "4.x" for a bundle without one.
PrintedVersion ==
  IF GetOpenshiftVersion(recBundle) # "" THEN GetOpenshiftVersion(recBundle) ELSE "4.x"

\* C23: a Status of a running instance whose operator-status query succeeded
\* reports "Running (v<version>)" when Available is set, whatever the other
\* flags, otherwise "Degraded" when Degraded is set, otherwise "Starting"
\* when Progressing is set; a Status of an instance that is not running
\* succeeds with "Stopped", no disk use and no disk size, and makes no cluster
\* or SSH query.
C23_StatusPrecedence ==
  (cmd = "Status" /\ pc = "done" /\ Made("GetState", "ok")) =>
    IF IsRunning(vmState)
    THEN (result.success /\ Made("GetClusterOperatorsStatus", "ok")) =>
           LET o == loc.operatorsStatus IN
           /\ result.status = "Running"
           /\ o.Available
                => result.openshiftStatus = "Running (v" \o PrintedVersion \o ")"
           /\ (~o.Available /\ o.Degraded) => result.openshiftStatus = "Degraded"
           /\ (~o.Available /\ ~o.Degraded /\ o.Progressing)
                => result.openshiftStatus = "Starting"
    ELSE /\ result.success
         /\ result.status = vmState
         /\ result.openshiftStatus = "Stopped"
         /\ result.diskUse = 0 /\ result.diskSize = 0
         /\ trace[Len(trace)].call = "GetState"

\* C23, its case: Status returned for a running instance whose operators are
\* both available and degraded.
C23_AvailableAndDegraded ==
  /\ cmd = "Status" /\ pc = "done" /\ result.success
  /\ Made("GetClusterOperatorsStatus", "ok")
  /\ loc.operatorsStatus.Available /\ loc.operatorsStatus.Degraded

\* C24: when the existence query of Start fails, Start does not return its
\* error: it holds the instance for absent and goes on with the creation
\* branch, the pull secret first, whether or not an instance is recorded.
C24_ExistsErrorDropped ==
  (cmd = "Start" /\ Made("Exists", "err")) =>
    /\ trace[2] = [call |-> "Exists", out |-> "err"]
    /\ ~loc.exists
    /\ IF Len(trace) = 2 THEN pc = "GetPullSecret" /\ result = NoResult
       ELSE trace[3].call = "GetPullSecret"
    /\ ~Invoked("Load")
    /\ (Len(trace) >= 6 /\ \A i \in 3..5 : trace[i].out = "ok")
         => trace[6].call \in {"NewHost", "Create"}

\* C24, its case: the existence query failed for a recorded instance and
\* Start went as far as the driver's Create.
C24_CreatedOverRecordedInstance ==
  /\ cmd = "Start" /\ entry.recorded
  /\ Made("Exists", "err") /\ Invoked("Create")

\* C25: a Stop that stopped the VM returns success with the state that was
\* read before the stop was issued, the state the VM had when Stop was
\* entered; a failed read of that state does not end Stop, the stop is
\* issued all the same.
C25_StopReportsStateReadBefore ==
  cmd = "Stop" =>
    /\ Invoked("Stop") => trace[Len(trace) - 1].call = "GetState"
    /\ Made("GetState", "err") => (pc = "HostStop" \/ Invoked("Stop"))
    /\ (pc = "done" /\ Made("Stop", "ok"))
         => /\ result.success
            /\ Made("GetState", "ok") => result.state = entry.vmState

\* C25, its case: a Stop of a running VM succeeded and the VM is stopped.
C25_RunningVMStopped ==
  /\ cmd = "Stop" /\ pc = "done" /\ result.success
  /\ entry.vmState = "Running" /\ vmState = "Stopped"
  /\ Made("GetState", "ok")

=============================================================================
